---------------------------- MODULE Spec2Model ----------------------------
(***************************************************************************)
(* Model of the Minecraft Server Manager (the server.js listed in          *)
(* src/minecraft-server-manager/README.md, lines 44-290): the persisted    *)
(* registry servers.json, the instance directories, the uploaded jars, the *)
(* in-memory process map procMap and the child processes it supervises.    *)
(*                                                                         *)
(* Every Express handler of that file is synchronous (no await, no         *)
(* callback between its first and last statement), so Node's event loop    *)
(* runs it to completion before any other handler or event callback: each  *)
(* handler is one atomic action.  Concurrent requests are the              *)
(* interleavings of these actions.  What a handler or callback only        *)
(* queues is done by later steps: the open of console.log and the writes   *)
(* to it (LogOpened, LogWritten), and the 'error' event of a write to a    *)
(* closed pipe (StdinError).                                               *)
(*                                                                         *)
(* Spec is the manager on a host that keeps README.md's requirements: the  *)
(* launcher `java` is runnable (line 8), servers.json holds what the       *)
(* manager wrote and the manager is not restarted.  HostSpec adds a host   *)
(* that loses or gains the launcher and restarts the manager, StorageSpec  *)
(* has the bytes of servers.json damaged under the handlers that read it.  *)
(* RegistrySpec is the registry under a wider choice of create's inputs,   *)
(* LogSpec the read of the logs handler on log files of many lines, and    *)
(* BotSpec the message queues of src/Bot/server.js and TikSpec its TikTok  *)
(* connection.                                                             *)
(***************************************************************************)
EXTENDS Integers, Sequences, FiniteSets, TLC

VARIABLES
    jars,      \* names of the files in data/jars
    servers,   \* the content of data/servers.json: a sequence of records
    dirs,      \* data/servers: directory name -> its files
    procMap,   \* procMap: id -> handle (pid) of the child
    procs,     \* children spawned whose 'close' has not been emitted yet
    nextPid,   \* number of children spawned so far, plus one
    armed,     \* history: ids started from a stopped state, no exit observed since
    last,      \* the handler or callback that ran last, and its response
    up,        \* the manager's Node process is alive
    java,      \* the launcher `java` can be run on this host
    garbled,   \* the bytes of data/servers.json no longer parse as JSON
    epipe,     \* children whose stdin took a write after they had exited
    streams,   \* the logStream of each start: pid -> what it has still to do
    \* src/Bot/server.js, the chat-relay bridge:
    queues,    \* the Map queues: channel id -> reference to an array
    heap,      \* the arrays: reference -> the messages it holds, oldest first
    flushes,   \* the calls of the flush callback suspended in a send
    accepted,  \* number of calls of queueToAll so far
    sent,      \* history: channel id -> the messages passed to its send, in order
    conns,     \* the WebcastPushConnection objects created, in order
    tiktokConn,             \* index in conns, 0 for null
    tiktokConnectedRoomId,  \* a room id, 0 for null
    tiktokConnecting,
    \* the log file and the text a run of the logs handler's read gives:
    tfile,
    tout

\* The manager's own variables.
mgr == <<jars, servers, dirs, procMap, procs, nextPid, armed, last,
         up, java, garbled, epipe, streams>>

\* The variables of the other components, which the manager never touches.
bridge == <<queues, heap, flushes, accepted, sent>>

tiktok == <<conns, tiktokConn, tiktokConnectedRoomId, tiktokConnecting>>

aside == <<bridge, tiktok, tfile, tout>>

vars == <<jars, servers, dirs, procMap, procs, nextPid, armed, last,
          up, java, garbled, epipe, streams, aside>>

----------------------------------------------------------------------------
(* Bounds of the model *)

MaxServers == 2     \* records in servers.json
MaxSpawn   == 2     \* children spawned
MaxChunks  == 1     \* chunks through the children's pipes: input lines
                    \* written to the live children plus output chunks logged

----------------------------------------------------------------------------
(* Inputs *)

\* Strings the code reads character by character (names, ids, commands)
\* are sequences of characters; <<>> is the empty or absent string.
Names    == { <<"M", "c", "!">> }          \* instance names
Rands    == { <<"x">>, <<"y">> }           \* suffixes Math.random can give
Ports    == { 0, 25565 }                   \* 0: port absent
Mems     == { 0 }                          \* 0: maxMemoryMB absent
JarFiles == { "a.jar" }                    \* file names in data/jars
JarRefs  == { <<>>, <<"up", "a.jar">> }    \* jar references, as path segments
Commands == { <<>>, <<" ">>, <<" ", "o", "p", "\n">> }
Codes    == { 0, 1 }                       \* exit codes

NoId   == <<>>
NoText == <<>>

Min(a, b) == IF a < b THEN a ELSE b

----------------------------------------------------------------------------
(* Pure helpers *)

DefaultMaxMemoryMB == 1024
MinHeapCapMB       == 512

\* String.prototype.toLowerCase on the characters the inputs use.
LowerChar(c) ==
    CASE c = "M" -> "m"
      [] c = "C" -> "c"
      [] OTHER   -> c

\* The complement of the class [^a-z0-9] of generateId's first replace.
IsSlugChar(c) == c \in { "m", "c", "x", "y", "0", "1" }

RECURSIVE ToLower(_)
ToLower(s) ==
    IF s = <<>> THEN <<>> ELSE <<LowerChar(Head(s))>> \o ToLower(Tail(s))

\* replace(/[^a-z0-9]+/g, '-'): every maximal run of other characters
\* becomes one dash.
RECURSIVE DashRuns(_, _)
DashRuns(s, inRun) ==
    IF s = <<>> THEN <<>>
    ELSE IF IsSlugChar(Head(s)) THEN <<Head(s)>> \o DashRuns(Tail(s), FALSE)
    ELSE IF inRun THEN DashRuns(Tail(s), TRUE)
    ELSE <<"-">> \o DashRuns(Tail(s), TRUE)

\* replace(/^-|-$/g, ''): one dash off the start and one off the end.
StripDashes(s) ==
    LET a == IF s # <<>> /\ Head(s) = "-" THEN Tail(s) ELSE s
    IN  IF a # <<>> /\ a[Len(a)] = "-" THEN SubSeq(a, 1, Len(a) - 1) ELSE a

generateId(name, rand) ==
    StripDashes(DashRuns(ToLower(name), FALSE)) \o <<"-">> \o rand

\* path.basename of a reference given as its path segments.
Basename(ref) == ref[Len(ref)]

\* The white space String.prototype.trim removes, among the characters used.
IsSpace(c) == c \in { " ", "\t", "\n", "\r" }

RECURSIVE TrimStart(_)
TrimStart(s) ==
    IF s = <<>> THEN <<>>
    ELSE IF IsSpace(Head(s)) THEN TrimStart(Tail(s)) ELSE s

RECURSIVE TrimEnd(_)
TrimEnd(s) ==
    IF s = <<>> THEN <<>>
    ELSE IF IsSpace(s[Len(s)]) THEN TrimEnd(SubSeq(s, 1, Len(s) - 1)) ELSE s

Trim(s) == TrimEnd(TrimStart(s))

\* Mutant: the stop line without its newline.
StopLine_NoNewline == <<"s", "t", "o", "p">>

\* The literal 'stop\n' of the stop handler.
StopLine == <<"s", "t", "o", "p", "\n">>

AllIds == { generateId(n, r) : n \in Names, r \in Rands }

\* Mutant: a load that takes no notice of the parse failure.
loadServers_Unchecked == servers

\* loadServers(): the records the file holds, [] when JSON.parse throws.
\* `servers` is the value last given to saveServers; a file that does
\* not exist yet reads as [] too, which is the initial value of `servers`.
loadServers == IF garbled THEN <<>> ELSE servers

\* servers.find(x => x.id === id): the first record with that id, if any.
HasRecord(id) == \E i \in 1..Len(loadServers) : loadServers[i].id = id

getServer(id) ==
    loadServers[CHOOSE i \in 1..Len(loadServers) :
                    /\ loadServers[i].id = id
                    /\ \A j \in 1..(i - 1) : loadServers[j].id # id]

\* Mutant: a filter that keeps the records it should drop.
WithoutId_Inverted(s, id) == SelectSeq(s, LAMBDA x : x.id = id)

\* servers.filter(x => x.id !== id)
RECURSIVE WithoutId(_, _)
WithoutId(s, id) ==
    IF s = <<>> THEN <<>>
    ELSE IF Head(s).id = id THEN WithoutId(Tail(s), id)
    ELSE <<Head(s)>> \o WithoutId(Tail(s), id)

IsRunning(id) == id \in DOMAIN procMap

\* The children of `id` whose 'close' has not been emitted.
LiveOf(id) == { p \in DOMAIN procs : procs[p].id = id }

\* Chunks written so far to the input streams of the children still tracked.
RECURSIVE SumWrites(_)
SumWrites(ps) ==
    IF ps = {} THEN 0
    ELSE LET p == CHOOSE q \in ps : TRUE
         IN  Len(procs[p].stdin) + SumWrites(ps \ {p})

Response(op, id, arg, status, body, pid, running) ==
    [ op |-> op, id |-> id, arg |-> arg, status |-> status, body |-> body,
      pid |-> pid, running |-> running ]

----------------------------------------------------------------------------
(* The state after the manager has started on an empty data directory *)

\* No handler or callback is running and no response is being sent.
Idle == Response("idle", NoId, NoText, 0, "", 0, <<>>)

\* The event loop runs one handler or callback at a time: the next one
\* starts when the previous one has returned and its response has left.
\* A manager that has died runs nothing.
Ready == last = Idle /\ up

\* let tiktokConn = null; let tiktokConnectedRoomId = null;
\* let tiktokConnecting = false
TikTokInit ==
    /\ conns = <<>>
    /\ tiktokConn = 0
    /\ tiktokConnectedRoomId = 0
    /\ tiktokConnecting = FALSE

\* The bridge before any message, the log reader before any read.
AsideInit ==
    /\ TikTokInit
    /\ queues = <<>>
    /\ heap = <<>>
    /\ flushes = <<>>
    /\ accepted = 0
    /\ sent = <<>>
    /\ tfile = << [len |-> 0, cr |-> FALSE] >>
    /\ tout = [done |-> FALSE, grown |-> 0, lines |-> <<>>]

ManagerInit ==
    /\ jars = {}
    /\ servers = <<>>
    /\ dirs = <<>>
    /\ procMap = <<>>
    /\ procs = <<>>
    /\ nextPid = 1
    /\ armed = {}
    /\ last = Idle
    /\ up = TRUE
    /\ java = TRUE
    /\ garbled = FALSE
    /\ epipe = {}
    /\ streams = <<>>

Init == ManagerInit /\ AsideInit

\* A function without one of its keys (Map.prototype.delete, fs.rmSync).
Without(f, k) == [ x \in DOMAIN f \ {k} |-> f[x] ]

\* The chunks a write stream has handed to the file system reach
\* data/servers/<dir>/console.log.
AppendLog(dir, entries) ==
    IF dir \in DOMAIN dirs
    THEN [dirs EXCEPT ![dir].log =
             [exists |-> TRUE, lines |-> @.lines \o entries]]
    ELSE dirs

\* fs.createWriteStream(logFile, {flags: 'a'}) returns at once: the open
\* of the file is queued, and so is every chunk given to write and end.
\* open: the file has been opened (and created if it was not there);
\* lost: the file was removed after that, the descriptor writes to a file
\* no name leads to; buf: the chunks not written yet; ended: end was
\* called.
NewStream(dir) ==
    [ dir |-> dir, open |-> FALSE, lost |-> FALSE, buf |-> <<>>,
      ended |-> FALSE ]

\* fs.rmSync of a directory: the streams that have its console.log open
\* keep a descriptor of the removed file.  What an ended stream still
\* writes there nobody can read: it is left out from here on.
Unlinked(dir) ==
    LET gone == { p \in DOMAIN streams :
                    /\ streams[p].dir = dir
                    /\ streams[p].open
                    /\ streams[p].ended }
    IN  [ p \in DOMAIN streams \ gone |->
            IF streams[p].dir = dir /\ streams[p].open
            THEN [streams[p] EXCEPT !.lost = TRUE]
            ELSE streams[p] ]

\* Output chunks buffered in the streams ps.
RECURSIVE BufferedData(_)
BufferedData(ps) ==
    IF ps = {} THEN 0
    ELSE LET p == CHOOSE x \in ps : TRUE
         IN  Cardinality({ i \in 1..Len(streams[p].buf) :
                              streams[p].buf[i][1] = "data" })
             + BufferedData(ps \ {p})

\* Output chunks in the console.log files of the directories ds.
RECURSIVE DataCount(_)
DataCount(ds) ==
    IF ds = {} THEN 0
    ELSE LET d == CHOOSE x \in ds : TRUE
         IN  Cardinality({ i \in 1..Len(dirs[d].log.lines) :
                              dirs[d].log.lines[i][1] = "data" })
             + DataCount(ds \ {d})

PipeChunks ==
    SumWrites(DOMAIN procs) + DataCount(DOMAIN dirs)
        + BufferedData(DOMAIN streams)

----------------------------------------------------------------------------
(* The jar store *)

\* POST /api/uploadJar
UploadJar(j) ==
    /\ Ready
    /\ jars' = jars \cup {j}
    /\ last' = Response("uploadJar", NoId, NoText, 200, "ok", 0, <<>>)
    /\ UNCHANGED <<servers, dirs, procMap, procs, nextPid, armed>>
    /\ UNCHANGED <<up, java, garbled, epipe, streams, aside>>

\* The operator removes an uploaded jar from data/jars by hand: the case
\* the start handler tests for ('JAR missing on disk').
JarRemoved(j) ==
    /\ Ready
    /\ j \in jars
    /\ jars' = jars \ {j}
    /\ last' = Response("jarRemoved", NoId, NoText, 0, "", 0, <<>>)
    /\ UNCHANGED <<servers, dirs, procMap, procs, nextPid, armed>>
    /\ UNCHANGED <<up, java, garbled, epipe, streams, aside>>

----------------------------------------------------------------------------
(* The registry *)

\* Mutant: the listing reports every instance that has a record as running.
Listing_AllRunning == [ i \in 1..Len(loadServers) |-> TRUE ]

\* GET /api/servers: each record with running: procMap.has(s.id)
Listing ==
    [ i \in 1..Len(loadServers) |-> IsRunning(loadServers[i].id) ]

List ==
    /\ Ready
    /\ last' = Response("list", NoId, NoText, 200, "ok", 0, Listing)
    /\ UNCHANGED <<jars, servers, dirs, procMap, procs, nextPid, armed>>
    /\ UNCHANGED <<up, java, garbled, epipe, streams, aside>>

\* The validation of POST /api/servers: <<status, error>>.
CreateRefusal(name, port, ref) ==
    IF name = <<>> \/ port = 0 \/ ref = <<>>
    THEN <<400, "name, port, jar are required">>
    ELSE IF Basename(ref) \notin jars
    THEN <<400, "JAR not found. Upload it first.">>
    ELSE <<200, "ok">>

\* Mutant: the record keeps the memory limit as received, without default.
NewRecord_NoDefault(id, name, port, mem, ref) ==
    [ id |-> id, name |-> name, port |-> port, maxMemoryMB |-> mem,
      jar |-> Basename(ref), dir |-> id ]

\* newS of the create handler
NewRecord(id, name, port, mem, ref) ==
    [ id |-> id, name |-> name, port |-> port,
      maxMemoryMB |-> IF mem = 0 THEN DefaultMaxMemoryMB ELSE mem,
      jar |-> Basename(ref), dir |-> id ]

\* mkdirSync(dir, {recursive: true}), server.properties unless it exists
\* (props 0: there is none), eula.txt always.
MakeDir(dir, port) ==
    IF dir \in DOMAIN dirs
    THEN [dirs EXCEPT ![dir].eula = TRUE,
                      ![dir].props = IF @ = 0 THEN port ELSE @]
    ELSE (dir :> [ props |-> port, eula |-> TRUE,
                   log |-> [exists |-> FALSE, lines |-> <<>>] ]) @@ dirs

\* POST /api/servers
Create(name, port, mem, ref, rand) ==
    LET r  == CreateRefusal(name, port, ref)
        id == generateId(name, rand)
    IN  /\ Ready
        /\ IF r[1] # 200
           THEN /\ last' = Response("create", NoId, NoText, r[1], r[2], 0, <<>>)
                /\ UNCHANGED <<servers, dirs, garbled>>
           ELSE /\ Len(loadServers) < MaxServers
                /\ dirs' = MakeDir(id, port)
                /\ servers' = Append(loadServers,
                                     NewRecord(id, name, port, mem, ref))
                /\ garbled' = FALSE
                /\ last' = Response("create", id, NoText, 200, "ok", 0, <<>>)
        /\ UNCHANGED <<jars, procMap, procs, nextPid, armed>>
        /\ UNCHANGED <<up, java, epipe, streams, aside>>

\* The checks of DELETE /api/servers/:id: <<status, error>>.
DeleteRefusal(id) ==
    IF ~HasRecord(id) THEN <<404, "Not found">>
    ELSE IF IsRunning(id) THEN <<400, "Stop the server first">>
    ELSE <<200, "ok">>

\* Mutant: the delete handler leaves the instance directory on disk.
RemoveDir_Kept(dir) == dirs

\* fs.rmSync(s.dir, {recursive: true, force: true})
RemoveDir(dir) == Without(dirs, dir)

\* fs.rmSync(dir, {recursive: true, force: true}) removes the entries it
\* finds and then the directory.  An open of console.log that a stream
\* has queued runs on a thread of its own: when it creates the file after
\* the entries were removed and before the directory is, the directory is
\* not empty and rmSync throws (ENOTEMPTY), leaving only the new, empty
\* console.log.
Emptied(dir) ==
    [dirs EXCEPT ![dir] = [ props |-> 0, eula |-> FALSE,
                            log |-> [exists |-> TRUE, lines |-> <<>>] ]]

\* DELETE /api/servers/:id.  The handler is an async function without
\* try/catch: when rmSync throws, the promise it returned is rejected and
\* nothing handles the rejection, which ends the manager before
\* saveServers and before any answer.
Delete(id) ==
    LET r == DeleteRefusal(id)
    IN  /\ Ready
        /\ IF r[1] # 200
           THEN /\ last' = Response("delete", id, NoText, r[1], r[2], 0, <<>>)
                /\ UNCHANGED <<servers, dirs, garbled, streams, up>>
           ELSE \/ /\ dirs' = RemoveDir(getServer(id).dir)
                   /\ streams' = Unlinked(getServer(id).dir)
                   /\ servers' = WithoutId(loadServers, id)
                   /\ garbled' = FALSE
                   /\ last' = Response("delete", id, NoText, r[1], r[2], 0, <<>>)
                   /\ UNCHANGED up
                \/ /\ \E p \in DOMAIN streams :
                         /\ streams[p].dir = getServer(id).dir
                         /\ ~streams[p].open
                   /\ dirs' = Emptied(getServer(id).dir)
                   /\ up' = FALSE
                   /\ last' = Response("delete", id, NoText, 0, "ENOTEMPTY", 0, <<>>)
                   /\ UNCHANGED <<servers, garbled, streams>>
        /\ UNCHANGED <<jars, procMap, procs, nextPid, armed>>
        /\ UNCHANGED <<java, epipe, aside>>

----------------------------------------------------------------------------
(* The process supervisor *)

\* Mutant: the start handler without its procMap.has(id) check.
StartRefusal_NoRunningCheck(id) ==
    IF ~HasRecord(id) THEN <<404, "Not found">>
    ELSE IF getServer(id).jar \notin jars THEN <<400, "JAR missing on disk">>
    ELSE <<200, "ok">>

\* Mutant: the start handler without its existsSync(jarPath) check.
StartRefusal_NoJarCheck(id) ==
    IF IsRunning(id) THEN <<400, "Already running">>
    ELSE IF ~HasRecord(id) THEN <<404, "Not found">>
    ELSE <<200, "ok">>

\* The checks of POST /api/servers/:id/start, in the handler's order:
\* <<status, error>>.
StartRefusal(id) ==
    IF IsRunning(id) THEN <<400, "Already running">>
    ELSE IF ~HasRecord(id) THEN <<404, "Not found">>
    ELSE IF getServer(id).jar \notin jars THEN <<400, "JAR missing on disk">>
    ELSE <<200, "ok">>

\* The launch arguments: -Xmx<max>M -Xms<min(512, max)>M -jar <jar> nogui
LaunchArgs(s) ==
    IF s.maxMemoryMB # 0
    THEN <<"-Xmx", s.maxMemoryMB, "-Xms", Min(MinHeapCapMB, s.maxMemoryMB),
           "-jar", s.jar, "nogui">>
    ELSE <<"-jar", s.jar, "nogui">>

\* The child spawn returns: running, nothing written to its input yet.
NewChild(s) ==
    [ id |-> s.id, st |-> "running", code |-> 0, stdin |-> <<>>,
      args |-> LaunchArgs(s), cwd |-> s.dir ]

\* Mutant: the start handler never records the child in procMap.
MapSet_Forgotten(id, pid) == procMap

\* procMap.set(id, child)
MapSet(id, pid) == (id :> pid) @@ Without(procMap, id)

\* The open of console.log with flags 'a' completes: the file exists.
OpenLog(dir) ==
    IF dir \in DOMAIN dirs
    THEN [dirs EXCEPT ![dir].log.exists = TRUE]
    ELSE dirs

\* History: a start handled while the instance exists, is stopped and has
\* its jar on disk arms the id until that id's next 'close'.
ArmOnStart(id) ==
    IF HasRecord(id) /\ ~IsRunning(id) /\ getServer(id).jar \in jars
    THEN armed \cup {id}
    ELSE armed

\* POST /api/servers/:id/start
Start(id) ==
    LET r == StartRefusal(id)
    IN  /\ Ready
        /\ IF r[1] # 200
           THEN /\ last' = Response("start", id, NoText, r[1], r[2], 0, <<>>)
                /\ armed' = ArmOnStart(id)
                /\ UNCHANGED <<jars, servers, dirs, procMap, procs, nextPid>>
                /\ UNCHANGED <<up, epipe, streams>>
           ELSE IF java
           THEN /\ nextPid <= MaxSpawn
                /\ procs' = (nextPid :> NewChild(getServer(id))) @@ procs
                /\ procMap' = MapSet(id, nextPid)
                /\ streams' = (nextPid :> NewStream(getServer(id).dir)) @@ streams
                /\ nextPid' = nextPid + 1
                /\ armed' = ArmOnStart(id)
                /\ last' = Response("start", id, NoText, 200, "ok", nextPid, <<>>)
                /\ UNCHANGED <<jars, servers, dirs>>
                /\ UNCHANGED <<up, epipe>>
           ELSE \* spawn returns a child without a process and the handler
                \* answers {ok: true}; the child's 'error' event (ENOENT),
                \* emitted on the next tick, has no listener: the uncaught
                \* exception ends the manager before any other callback.
                \* console.log is opened asynchronously: it may or may not
                \* have been created by then.
                /\ last' = Response("start", id, NoText, 200, "ok", 0, <<>>)
                /\ up' = FALSE
                /\ dirs' \in {dirs, OpenLog(getServer(id).dir)}
                /\ UNCHANGED <<jars, servers, nextPid>>
                /\ UNCHANGED <<procMap, procs, armed, epipe, streams>>
        /\ UNCHANGED <<java, garbled, aside>>

\* child.stdin.write(chunk) on the child procMap holds for id.  write
\* returns without throwing whatever the state of the pipe: a failure is
\* reported later, to the stream's 'error' listeners.
WriteInput(id, chunk) ==
    [procs EXCEPT ![procMap[id]].stdin = Append(@, chunk)]

\* The pipe of a child that has exited is closed at its far end: a write
\* to it fails with EPIPE after write has returned.
BrokenPipe(id) ==
    IF procs[procMap[id]].st = "exited" THEN epipe \cup {procMap[id]}
    ELSE epipe

\* POST /api/servers/:id/stop
Stop(id) ==
    /\ Ready
    /\ IF ~IsRunning(id)
       THEN /\ last' = Response("stop", id, NoText, 400, "Not running", 0, <<>>)
            /\ UNCHANGED <<procs, epipe>>
       ELSE /\ PipeChunks < MaxChunks
            /\ procs' = WriteInput(id, StopLine)
            /\ epipe' = BrokenPipe(id)
            /\ last' = Response("stop", id, NoText, 200, "ok", 0, <<>>)
    /\ UNCHANGED <<jars, servers, dirs, procMap, nextPid, armed>>
    /\ UNCHANGED <<up, java, garbled, streams, aside>>

\* Mutant: the command handler tests the command before the child.
CommandRefusal_TextFirst(id, text) ==
    IF text = <<>> THEN <<400, "command required">>
    ELSE IF ~IsRunning(id) THEN <<400, "Not running">>
    ELSE <<200, "ok">>

\* The checks of POST /api/servers/:id/command, in the handler's order.
CommandRefusal(id, text) ==
    IF ~IsRunning(id) THEN <<400, "Not running">>
    ELSE IF text = <<>> THEN <<400, "command required">>
    ELSE <<200, "ok">>

\* Mutant: the command is written as received, untrimmed.
CommandLine_Untrimmed(text) == text \o <<"\n">>

\* command.trim() + '\n'
CommandLine(text) == Trim(text) \o <<"\n">>

\* POST /api/servers/:id/command
Command(id, text) ==
    LET r == CommandRefusal(id, text)
    IN  /\ Ready
        /\ last' = Response("command", id, text, r[1], r[2], 0, <<>>)
        /\ IF r[1] # 200
           THEN UNCHANGED <<procs, epipe>>
           ELSE /\ PipeChunks < MaxChunks
                /\ procs' = WriteInput(id, CommandLine(text))
                /\ epipe' = BrokenPipe(id)
        /\ UNCHANGED <<jars, servers, dirs, procMap, nextPid, armed>>
        /\ UNCHANGED <<up, java, garbled, streams, aside>>

\* child.stdout.on('data') / child.stderr.on('data'): d => logStream.write(d)
OnData(p) ==
    /\ Ready
    /\ p \in DOMAIN procs
    /\ procs[p].cwd \in DOMAIN dirs
    /\ PipeChunks < MaxChunks
    /\ streams' = [streams EXCEPT ![p].buf = Append(@, <<"data", 0>>)]
    /\ last' = Response("data", procs[p].id, NoText, 0, "", p, <<>>)
    /\ UNCHANGED <<jars, servers, dirs, procMap, procs, nextPid, armed>>
    /\ UNCHANGED <<up, java, garbled, epipe, aside>>

\* The child terminates (by itself, on the stop line, or killed from
\* outside); Node has not emitted 'close' yet.
ProcExit(p, code) ==
    /\ Ready
    /\ p \in DOMAIN procs
    /\ procs[p].st = "running"
    /\ procs' = [procs EXCEPT ![p].st = "exited", ![p].code = code]
    /\ last' = Response("exit", procs[p].id, NoText, 0, "", p, <<>>)
    /\ UNCHANGED <<jars, servers, dirs, procMap, nextPid, armed>>
    /\ UNCHANGED <<up, java, garbled, epipe, streams, aside>>

\* procMap.delete(id) of the 'close' callback
MapDelete(id) == Without(procMap, id)

\* logStream.end(`\n[process exited with code ${code}]\n`)
Trailer(code) == <<"exit", code>>

\* child.on('close', code => ...)
OnClose(p) ==
    /\ Ready
    /\ p \in DOMAIN procs
    /\ procs[p].st = "exited"
    /\ procMap' = MapDelete(procs[p].id)
    /\ streams' = [streams EXCEPT ![p].buf = Append(@, Trailer(procs[p].code)),
                                  ![p].ended = TRUE]
    /\ procs' = Without(procs, p)
    /\ armed' = armed \ {procs[p].id}
    /\ epipe' = epipe \ {p}
    /\ last' = Response("close", procs[p].id, NoText, 0, "", p, <<>>)
    /\ UNCHANGED <<jars, servers, dirs, nextPid>>
    /\ UNCHANGED <<up, java, garbled, aside>>

\* An 'error' event with no listener is an uncaught exception: the
\* manager's process ends.  The variables keep the values they had; no
\* handler or callback reads them again.
Died(id, what, p) ==
    /\ up' = FALSE
    /\ last' = Response("error", id, NoText, 0, what, p, <<>>)

\* The open queued by createWriteStream completes, in a turn of the event
\* loop after the start handler has returned.  Where the directory has
\* been deleted meanwhile the open fails (ENOENT) and the stream emits
\* 'error', for which it has no listener.
LogOpened(p) ==
    /\ Ready
    /\ p \in DOMAIN streams
    /\ ~streams[p].open
    /\ IF streams[p].dir \in DOMAIN dirs
       THEN /\ dirs' = OpenLog(streams[p].dir)
            /\ streams' = [streams EXCEPT ![p].open = TRUE]
            /\ UNCHANGED <<up, last>>
       ELSE /\ Died(NoId, "ENOENT", p)
            /\ UNCHANGED <<dirs, streams>>
    /\ UNCHANGED <<jars, servers, procMap, procs, nextPid, armed>>
    /\ UNCHANGED <<java, garbled, epipe, aside>>

\* A write of the first n chunks the stream has buffered completes (one
\* chunk, or several written together); after the last chunk of a stream
\* that was ended the file is closed and the stream is gone.
LogWritten(p, n) ==
    /\ Ready
    /\ p \in DOMAIN streams
    /\ streams[p].open
    /\ n \in 1..Len(streams[p].buf)
    /\ dirs' = IF streams[p].lost THEN dirs
               ELSE AppendLog(streams[p].dir, SubSeq(streams[p].buf, 1, n))
    /\ streams' = IF streams[p].ended /\ n = Len(streams[p].buf)
                  THEN Without(streams, p)
                  ELSE [streams EXCEPT ![p].buf = SubSeq(@, n + 1, Len(@))]
    /\ UNCHANGED <<jars, servers, procMap, procs, nextPid, armed, last>>
    /\ UNCHANGED <<up, java, garbled, epipe, aside>>

----------------------------------------------------------------------------
(* servers.json as text *)

\* The text of the file is held as its JSON tokens: the punctuation, and
\* one token for each string and each number.
Punct(c)  == <<c>>
StrTok(v) == <<"str", v>>
NumTok(v) == <<"num", v>>

\* The keys of a record, in the order the create handler sets them.
Fields == <<"id", "name", "port", "maxMemoryMB", "jar", "dir">>

\* Mutant: a stringify that writes the elements of an array last to first.
RECURSIVE ArrayTokens_Reversed(_)
ArrayTokens_Reversed(items) ==
    IF items = <<>> THEN <<>>
    ELSE items[Len(items)]
         \o (IF Len(items) > 1 THEN <<Punct(",")>> ELSE <<>>)
         \o ArrayTokens_Reversed(SubSeq(items, 1, Len(items) - 1))

\* The members of an object or the elements of an array, each given as
\* its tokens, with commas between them.
RECURSIVE ArrayTokens(_)
ArrayTokens(items) ==
    IF items = <<>> THEN <<>>
    ELSE Head(items)
         \o (IF Len(items) > 1 THEN <<Punct(",")>> ELSE <<>>)
         \o ArrayTokens(Tail(items))

ValueToken(key, v) ==
    IF key \in {"port", "maxMemoryMB"} THEN NumTok(v) ELSE StrTok(v)

ObjectTokens(r) ==
    <<Punct("{")>>
    \o ArrayTokens([ i \in 1..Len(Fields) |->
                       << StrTok(Fields[i]), Punct(":"),
                          ValueToken(Fields[i], r[Fields[i]]) >> ])
    \o <<Punct("}")>>

\* JSON.stringify(servers, null, 2)
JSONstringify(recs) ==
    <<Punct("[")>>
    \o ArrayTokens([ i \in 1..Len(recs) |-> ObjectTokens(recs[i]) ])
    \o <<Punct("]")>>

\* The token at position i, or the end of the text.
Tok(t, i) == IF i \in 1..Len(t) THEN t[i] ELSE <<"eof">>

Failed == [ok |-> FALSE, value |-> <<>>, next |-> 0]

\* key : value (, key : value)* }
RECURSIVE ParseMembers(_, _, _)
ParseMembers(t, i, acc) ==
    IF ~(/\ Tok(t, i)[1] = "str"
         /\ Tok(t, i + 1) = Punct(":")
         /\ Tok(t, i + 2)[1] \in {"str", "num"})
    THEN Failed
    ELSE LET obj == (Tok(t, i)[2] :> Tok(t, i + 2)[2]) @@ acc
         IN  IF Tok(t, i + 3) = Punct(",") THEN ParseMembers(t, i + 4, obj)
             ELSE IF Tok(t, i + 3) = Punct("}")
             THEN [ok |-> TRUE, value |-> obj, next |-> i + 4]
             ELSE Failed

ParseObject(t, i) ==
    IF Tok(t, i) # Punct("{") THEN Failed
    ELSE IF Tok(t, i + 1) = Punct("}")
    THEN [ok |-> TRUE, value |-> <<>>, next |-> i + 2]
    ELSE ParseMembers(t, i + 1, <<>>)

\* object (, object)* ] and the end of the text
RECURSIVE ParseElements(_, _, _)
ParseElements(t, i, acc) ==
    LET o == ParseObject(t, i)
    IN  IF ~o.ok THEN Failed
        ELSE IF Tok(t, o.next) = Punct(",")
        THEN ParseElements(t, o.next + 1, Append(acc, o.value))
        ELSE IF Tok(t, o.next) = Punct("]") /\ o.next = Len(t)
        THEN [ok |-> TRUE, value |-> Append(acc, o.value), next |-> o.next + 1]
        ELSE Failed

\* JSON.parse of a text that is an array of flat objects; ok is FALSE
\* where JSON.parse throws a SyntaxError.
JSONparse(t) ==
    IF Tok(t, 1) # Punct("[") THEN Failed
    ELSE IF Tok(t, 2) = Punct("]")
    THEN IF Len(t) = 2 THEN [ok |-> TRUE, value |-> <<>>, next |-> 3]
         ELSE Failed
    ELSE ParseElements(t, 2, <<>>)

\* saveServers(servers): the text written to servers.json
saveServers(recs) == JSONstringify(recs)

\* loadServers() on a file that exists with the text t
LoadFrom(t) == IF JSONparse(t).ok THEN JSONparse(t).value ELSE <<>>

\* A write of the file torn before its last token.
Torn(t) == SubSeq(t, 1, Len(t) - 1)

\* The text of data/servers.json: what saveServers wrote last, whole or
\* damaged.
stateFile == IF garbled THEN Torn(saveServers(servers)) ELSE saveServers(servers)

----------------------------------------------------------------------------
(* The log reader: GET /api/servers/:id/logs *)

\* A text is held as the pieces String.prototype.split(/\r?\n/) cuts it
\* into, in order: piece i has len characters that are no line break and,
\* unless it is the last, a line break after it, "\r\n" when cr and "\n"
\* otherwise.  The last piece is what follows the last line break: it has
\* length 0 when the text ends in a line break, and the empty text is the
\* one piece of length 0.  Characters are one byte each (ASCII).
Piece(len, cr) == [len |-> len, cr |-> cr]

EmptyText == << Piece(0, FALSE) >>

TailBytes == 1048576     \* 1024 * 1024
TailLines == 2000

\* The bytes piece i takes in the file, its line break included.
PieceBytes(f, i) ==
    f[i].len + (IF i = Len(f) THEN 0 ELSE IF f[i].cr THEN 2 ELSE 1)

\* The bytes of pieces lo..hi.
RECURSIVE RangeBytes(_, _, _)
RangeBytes(f, lo, hi) ==
    IF lo > hi THEN 0
    ELSE IF lo = hi THEN PieceBytes(f, lo)
    ELSE LET mid == (lo + hi) \div 2
         IN  RangeBytes(f, lo, mid) + RangeBytes(f, mid + 1, hi)

\* fs.statSync(logFile).size
FileSize(f) == RangeBytes(f, 1, Len(f))

\* readSync(fd, buffer, 0, size, stat.size - size) and split(/\r?\n/):
\* the pieces of the last size bytes of the file, each as the piece of the
\* file it comes from and the number of its characters that were read.
\* The first one may be the end of a piece cut by the start of the buffer.
ReadPieces(f) ==
    LET size  == Min(FileSize(f), TailBytes)
        start == FileSize(f) - size
    IN  IF start = 0
        THEN [ i \in 1..Len(f) |-> [idx |-> i, len |-> f[i].len] ]
        ELSE LET k   == CHOOSE i \in 1..Len(f) :
                            /\ RangeBytes(f, 1, i - 1) <= start
                            /\ start < RangeBytes(f, 1, i)
                 end == RangeBytes(f, 1, k - 1) + f[k].len
             IN  << [idx |-> k, len |-> IF start < end THEN end - start ELSE 0] >>
                 \o [ i \in 1..(Len(f) - k) |->
                          [idx |-> k + i, len |-> f[k + i].len] ]

\* Mutant: an Array.prototype.slice that keeps one piece more.
SliceLast_OneMore(s, n) ==
    IF Len(s) <= n + 1 THEN s ELSE SubSeq(s, Len(s) - n, Len(s))

\* Array.prototype.slice(-n)
SliceLast(s, n) ==
    IF Len(s) <= n THEN s ELSE SubSeq(s, Len(s) - n + 1, Len(s))

\* lines.slice(-2000).join('\n'): the text sent, as its pieces.
tail(f) == SliceLast(ReadPieces(f), TailLines)

\* What the manager's model of console.log holds, as a text: a chunk of
\* output is taken to be one line of four characters, and the trailer is
\* `\n[process exited with code ${code}]\n`.
DataText == << Piece(4, FALSE), Piece(0, FALSE) >>

TrailerText == << Piece(0, FALSE), Piece(28, FALSE), Piece(0, FALSE) >>

\* A text with another appended.
AppendText(f, g) ==
    SubSeq(f, 1, Len(f) - 1)
    \o << Piece(f[Len(f)].len + g[1].len, g[1].cr) >>
    \o Tail(g)

RECURSIVE LogText(_)
LogText(entries) ==
    IF entries = <<>> THEN EmptyText
    ELSE AppendText(LogText(SubSeq(entries, 1, Len(entries) - 1)),
                    IF entries[Len(entries)][1] = "data" THEN DataText
                    ELSE TrailerText)

\* Mutant: the logs handler without its existsSync(logFile) check: statSync
\* throws on the missing file and the catch answers 500.
LogsRefusal_NoFileCheck(id) ==
    IF ~HasRecord(id) THEN <<404, "Not found">>
    ELSE IF ~(getServer(id).dir \in DOMAIN dirs
              /\ dirs[getServer(id).dir].log.exists)
    THEN <<500, "Failed to read logs">>
    ELSE <<200, "text/plain">>

\* The checks of GET /api/servers/:id/logs: <<status, body>>.
LogsRefusal(id) ==
    IF ~HasRecord(id) THEN <<404, "Not found">>
    ELSE IF ~(getServer(id).dir \in DOMAIN dirs
              /\ dirs[getServer(id).dir].log.exists) THEN <<200, "">>
    ELSE <<200, "text/plain">>

\* GET /api/servers/:id/logs
Logs(id) ==
    LET r == LogsRefusal(id)
    IN  /\ Ready
        /\ last' = [ op |-> "logs", id |-> id, arg |-> NoText,
                     status |-> r[1], body |-> r[2], pid |-> 0,
                     running |-> <<>>,
                     text |-> IF r[2] = "text/plain"
                              THEN tail(LogText(dirs[getServer(id).dir].log.lines))
                              ELSE <<>> ]
        /\ UNCHANGED <<jars, servers, dirs, procMap, procs, nextPid, armed>>
        /\ UNCHANGED <<up, java, garbled, epipe, streams, aside>>

\* The log files the reader is tried on: n lines of len characters each,
\* the last one with or without its line break.
UniformLog(n, len, cr, closed) ==
    [ i \in 1..n |-> Piece(len, cr /\ (closed \/ i < n)) ]
    \o (IF closed \/ n = 0 THEN EmptyText ELSE <<>>)

LogCounts == { 0, 1, 2, 1999, 2000, 2001, 3000 }
LogWidths == { 0, 7 }
LongWidth == 600000       \* a line longer than half the bytes read
MaxLong   == 3            \* long lines in a log
MaxGrow   == 2            \* lines appended to a log under test

TestLogs ==
    { UniformLog(n, w, cr, c) :
          n \in LogCounts, w \in LogWidths, cr \in BOOLEAN, c \in BOOLEAN }
    \cup { UniformLog(n, LongWidth, FALSE, c) : n \in 1..MaxLong, c \in BOOLEAN }

NoRead == [done |-> FALSE, grown |-> 0, lines |-> <<>>]

LogInit ==
    /\ ManagerInit
    /\ queues = <<>> /\ heap = <<>> /\ flushes = <<>> /\ accepted = 0
    /\ sent = <<>>
    /\ TikTokInit
    /\ tfile \in TestLogs
    /\ tout = NoRead

\* logStream.write(d): the child prints one more line.
LogGrows(w) ==
    /\ tout.grown < MaxGrow
    /\ tfile' = AppendText(tfile, << Piece(w, FALSE), Piece(0, FALSE) >>)
    /\ tout' = [done |-> FALSE, grown |-> tout.grown + 1, lines |-> <<>>]
    /\ UNCHANGED <<mgr, bridge, tiktok>>

\* The read of the logs handler (lines 271-278) on the file as it is now.
LogRead ==
    /\ ~tout.done
    /\ tout' = [tout EXCEPT !.done = TRUE, !.lines = tail(tfile)]
    /\ UNCHANGED <<mgr, bridge, tiktok, tfile>>

LogNext == (\E w \in LogWidths : LogGrows(w)) \/ LogRead

LogSpec == LogInit /\ [][LogNext]_vars

----------------------------------------------------------------------------

Pids == 1..MaxSpawn

\* res.json / res.status(..).json: the response leaves, the turn of the
\* event loop ends.
Deliver ==
    /\ last # Idle
    /\ last' = Idle
    /\ UNCHANGED <<jars, servers, dirs, procMap, procs, nextPid, armed>>
    /\ UNCHANGED <<up, java, garbled, epipe, streams, aside>>

\* The 'error' event of a child's stdin after a write met the closed pipe
\* (EPIPE).  The stream has no 'error' listener, so the event is an
\* uncaught exception: the manager dies.  When Node handles the child's
\* exit first it destroys the stream and the event is never emitted, which
\* is OnClose(p) taken before this step.
StdinError(p) ==
    /\ Ready
    /\ p \in DOMAIN procs
    /\ p \in epipe
    /\ Died(procs[p].id, "EPIPE", p)
    /\ UNCHANGED <<jars, servers, dirs, procMap, procs, nextPid, armed>>
    /\ UNCHANGED <<java, garbled, epipe, streams, aside>>

\* The operator (or a process supervisor) stops the manager if it is alive
\* and starts it again: procMap is a new empty Map; the children of the
\* previous run are nobody's children now.
Restart ==
    /\ last = Idle
    /\ up' = TRUE
    /\ procMap' = <<>>
    /\ procs' = <<>>
    /\ armed' = {}
    /\ epipe' = {}
    /\ streams' = <<>>
    /\ last' = Response("restart", NoId, NoText, 0, "", 0, <<>>)
    /\ UNCHANGED <<jars, servers, dirs, nextPid, java, garbled, aside>>

\* `java` is installed on or removed from the host's PATH.
LauncherChanged ==
    /\ Ready
    /\ java' = ~java
    /\ last' = Response("launcher", NoId, NoText, 0, "", 0, <<>>)
    /\ UNCHANGED <<jars, servers, dirs, procMap, procs, nextPid, armed>>
    /\ UNCHANGED <<up, garbled, epipe, streams, aside>>

\* The bytes of servers.json are damaged (a torn write, an edit by hand):
\* JSON.parse throws on them from now on.
FileCorrupted ==
    /\ Ready
    /\ ~garbled
    /\ garbled' = TRUE
    /\ last' = Response("corrupted", NoId, NoText, 0, "", 0, <<>>)
    /\ UNCHANGED <<jars, servers, dirs, procMap, procs, nextPid, armed>>
    /\ UNCHANGED <<up, java, epipe, streams, aside>>

Next ==
    \/ \E j \in JarFiles : UploadJar(j)
    \/ \E j \in JarFiles : JarRemoved(j)
    \/ List
    \/ \E n \in Names \cup {<<>>}, po \in Ports, m \in Mems,
          ref \in JarRefs, r \in Rands : Create(n, po, m, ref, r)
    \/ \E id \in AllIds : Delete(id)
    \/ \E id \in AllIds : Start(id)
    \/ \E id \in AllIds : Stop(id)
    \/ \E id \in AllIds, t \in Commands : Command(id, t)
    \/ \E id \in AllIds : Logs(id)
    \/ \E p \in Pids : OnData(p)
    \/ \E p \in Pids, c \in Codes : ProcExit(p, c)
    \/ \E p \in Pids : OnClose(p)
    \/ \E p \in Pids : LogOpened(p)
    \/ \E p \in Pids, n \in 1..(MaxChunks + 1) : LogWritten(p, n)
    \/ \E p \in Pids : StdinError(p)
    \/ Deliver

Spec == Init /\ [][Next]_vars

\* Every turn of the event loop ends and, however many requests arrive
\* meanwhile, a manager that stays alive is given the 'close' of every
\* child that has exited, and is told of the end of every open and every
\* write it has queued.
FairSpec ==
    /\ Spec
    /\ WF_vars(Deliver)
    /\ \A p \in Pids : SF_vars(OnClose(p))
    /\ \A p \in Pids : SF_vars(LogOpened(p))
    /\ \A p \in Pids : SF_vars(\E n \in 1..(MaxChunks + 1) : LogWritten(p, n))

----------------------------------------------------------------------------
\* The manager on a host that may lose the launcher and that restarts the
\* manager: Next, and what the host does.
HostNext ==
    \/ \E j \in JarFiles : UploadJar(j)
    \/ \E j \in JarFiles : JarRemoved(j)
    \/ List
    \/ \E n \in Names \cup {<<>>}, po \in Ports, m \in Mems,
          ref \in JarRefs, r \in Rands : Create(n, po, m, ref, r)
    \/ \E id \in AllIds : Delete(id)
    \/ \E id \in AllIds : Start(id)
    \/ \E id \in AllIds : Stop(id)
    \/ \E id \in AllIds, t \in Commands : Command(id, t)
    \/ \E id \in AllIds : Logs(id)
    \/ \E p \in Pids : OnData(p)
    \/ \E p \in Pids, c \in Codes : ProcExit(p, c)
    \/ \E p \in Pids : OnClose(p)
    \/ \E p \in Pids : LogOpened(p)
    \/ \E p \in Pids, n \in 1..(MaxChunks + 1) : LogWritten(p, n)
    \/ \E p \in Pids : StdinError(p)
    \/ Restart
    \/ LauncherChanged
    \/ Deliver

HostSpec == Init /\ [][HostNext]_vars

\* The handlers that read servers.json, and the children they start, on a
\* host where the bytes of the file can get damaged.
StorageNext ==
    \/ \E j \in JarFiles : UploadJar(j)
    \/ List
    \/ \E n \in Names \cup {<<>>}, po \in Ports, m \in Mems,
          ref \in JarRefs, r \in Rands : Create(n, po, m, ref, r)
    \/ \E id \in AllIds : Delete(id)
    \/ \E id \in AllIds : Start(id)
    \/ \E id \in AllIds : Logs(id)
    \/ \E p \in Pids, c \in Codes : ProcExit(p, c)
    \/ \E p \in Pids : OnClose(p)
    \/ \E p \in Pids : LogOpened(p)
    \/ \E p \in Pids, n \in 1..(MaxChunks + 1) : LogWritten(p, n)
    \/ FileCorrupted
    \/ Deliver

StorageSpec == Init /\ [][StorageNext]_vars

\* The registry with more kinds of requests to create: two names that give
\* the same slug, two ports, a memory limit given or not, the jar named
\* with and without a directory.
WideNames == Names \cup { <<"m", "c">> }
WidePorts == Ports \cup { 25566 }
WideMems  == Mems \cup { 256 }
WideRefs  == JarRefs \cup { <<"a.jar">> }

RegistryNext ==
    \/ \E j \in JarFiles : UploadJar(j)
    \/ \E n \in WideNames \cup {<<>>}, po \in WidePorts, m \in WideMems,
          ref \in WideRefs, r \in Rands : Create(n, po, m, ref, r)
    \/ \E id \in AllIds : Delete(id)
    \/ \E id \in AllIds : Start(id)
    \/ \E p \in Pids, c \in Codes : ProcExit(p, c)
    \/ \E p \in Pids : OnClose(p)
    \/ \E p \in Pids : LogOpened(p)
    \/ \E p \in Pids, n \in 1..(MaxChunks + 1) : LogWritten(p, n)
    \/ Restart
    \/ Deliver

RegistrySpec == Init /\ [][RegistryNext]_vars

----------------------------------------------------------------------------
(* src/Bot/server.js: the message queues of the chat-relay bridge *)

MAX_QUEUE_LEN           == 500
DISCORD_SAFE_CHAR_LIMIT == 1900

MaxMsgs    == 2      \* calls of queueToAll
MaxFlushes == 2      \* calls of the flush callback suspended at a time

\* cachedChannels: the ids of the channels, in the array's order.
Channels == <<"c1", "c2">>

\* A message is held as its number in the order of arrival and its length
\* in characters; a text built from messages as its length and the numbers
\* of the messages in it.
Msg(n, len) == [n |-> n, len |-> len]

MsgLens == { 1, 1900, 1901 }   \* lengths of the messages queued
Backlogs == { 0, 499, 500 }    \* messages waiting when the model starts
BacklogLen == 1

Text(len, msgs) == [len |-> len, msgs |-> msgs]

NoMsg == Msg(0, 0)

\* let chunk = ""
NoChunk == Text(0, <<>>)

\* A new array: the least reference not in use.
NewRef(H) == CHOOSE r \in 1..(Cardinality(DOMAIN H) + 1) : r \notin DOMAIN H

\* Mutant: a splice that removes the newest elements.
Splice0_Newest(a, k) == SubSeq(a, 1, Len(a) - k)

\* q.splice(0, k)
Splice0(a, k) == SubSeq(a, k + 1, Len(a))

\* The body of queueToAll's loop for one channel: ensureQueue, push, and
\* the splice when the array is longer than MAX_QUEUE_LEN.
EnqueueOne(Q, H, ch, m) ==
    LET fresh  == ch \notin DOMAIN Q
        q      == IF fresh THEN NewRef(H) ELSE Q[ch]
        pushed == Append(IF fresh THEN <<>> ELSE H[q], m)
        kept   == IF Len(pushed) > MAX_QUEUE_LEN
                  THEN Splice0(pushed, Len(pushed) - MAX_QUEUE_LEN)
                  ELSE pushed
    IN  [ queues |-> IF fresh THEN (ch :> q) @@ Q ELSE Q,
          heap   |-> IF fresh THEN (q :> kept) @@ H
                     ELSE [H EXCEPT ![q] = kept] ]

\* queueToAll(message): for (const ch of cachedChannels), from the i-th.
RECURSIVE queueToAll(_, _, _, _)
queueToAll(Q, H, i, m) ==
    IF i > Len(Channels) THEN [queues |-> Q, heap |-> H]
    ELSE queueToAll(EnqueueOne(Q, H, Channels[i], m).queues,
                    EnqueueOne(Q, H, Channels[i], m).heap, i + 1, m)

\* A call of the flush callback: in the loop of channel i on the array q,
\* with the chunk built so far, about to run the head of the for loop
\* ("for", line 117), the head of the while loop ("while", line 123) or
\* the test after a message was taken ("if", line 137); suspended in the
\* send of a chunk that the next message would overflow ("overflow", line
\* 128) or in the send of the final chunk ("final", line 140), chunk being
\* the text passed to send; or returned ("done").
Flush(i, q, at, chunk, next) ==
    [i |-> i, q |-> q, at |-> at, chunk |-> chunk, next |-> next]

Finished == Flush(0, 0, "done", NoChunk, NoMsg)

Running(Q, H, f) == [queues |-> Q, heap |-> H, flush |-> f]

\* chunk ? chunk + "\n" + next : next
Joined(chunk, next) ==
    IF chunk.len = 0 THEN Text(next.len, <<next.n>>)
    ELSE Text(chunk.len + 1 + next.len, Append(chunk.msgs, next.n))

\* for (const ch of cachedChannels), at the i-th: lines 117-122.
FlushChannels(Q, H, i) ==
    IF i > Len(Channels) THEN Running(Q, H, Finished)
    ELSE IF Channels[i] \notin DOMAIN Q \/ H[Q[Channels[i]]] = <<>>
    THEN Running(Q, H, Flush(i + 1, 0, "for", NoChunk, NoMsg))
    ELSE Running(Q, H, Flush(i, Q[Channels[i]], "while", NoChunk, NoMsg))

\* while (q.length > 0) { next = q.shift(); if (...) ... else ... }, one
\* turn of it up to line 134, and queues.delete(ch.id) when it is left.
FlushLoop(Q, H, i, q, chunk) ==
    IF H[q] = <<>>
    THEN Running(Without(Q, Channels[i]), H,
                 Flush(i + 1, 0, "for", NoChunk, NoMsg))
    ELSE IF chunk.len + 1 + Head(H[q]).len > DISCORD_SAFE_CHAR_LIMIT
    THEN Running(Q, [H EXCEPT ![q] = Tail(@)],
                 Flush(i, q, "overflow", chunk, Head(H[q])))
    ELSE Running(Q, [H EXCEPT ![q] = Tail(@)],
                 Flush(i, q, "if", Joined(chunk, Head(H[q])), NoMsg))

\* if (q.length === 0 && chunk.length > 0) { await ch.send(chunk); ... }
FlushAfter(Q, H, i, q, chunk) ==
    IF H[q] = <<>> /\ chunk.len > 0
    THEN Running(Q, H, Flush(i, q, "final", chunk, NoMsg))
    ELSE Running(Q, H, Flush(i, q, "while", chunk, NoMsg))

\* One step of a call that is not suspended.
FlushStep(m) ==
    CASE m.flush.at = "for" -> FlushChannels(m.queues, m.heap, m.flush.i)
      [] m.flush.at = "while" ->
            FlushLoop(m.queues, m.heap, m.flush.i, m.flush.q, m.flush.chunk)
      [] m.flush.at = "if" ->
            FlushAfter(m.queues, m.heap, m.flush.i, m.flush.q, m.flush.chunk)
      [] OTHER -> m

Awaiting(f) == f.at \in {"overflow", "final", "done"}

\* n steps of a call, or as many as it takes before its next send.
RECURSIVE FlushSteps(_, _)
FlushSteps(m, n) ==
    IF Awaiting(m.flush) \/ n = 0 THEN m
    ELSE IF n = 1 THEN FlushStep(m)
    ELSE FlushSteps(FlushSteps(m, n \div 2), n - (n \div 2))

\* The steps a call can take at most: two for a message, two for a channel.
RECURSIVE Waiting(_, _)
Waiting(H, rs) ==
    IF rs = {} THEN 0
    ELSE LET r == CHOOSE x \in rs : TRUE
         IN  Len(H[r]) + Waiting(H, rs \ {r})

FlushRun(m) ==
    FlushSteps(m, 2 * Waiting(m.heap, DOMAIN m.heap) + 2 * Len(Channels) + 2)

\* The call f goes on after its send has settled: chunk = next after the
\* send of line 128, chunk = "" after the send of line 140.
Resume(Q, H, f) ==
    IF f.at = "overflow"
    THEN FlushRun(Running(Q, H, Flush(f.i, f.q, "if",
                                      Text(f.next.len, <<f.next.n>>), NoMsg)))
    ELSE FlushRun(Running(Q, H, Flush(f.i, f.q, "while", NoChunk, NoMsg)))

\* The arrays still referred to, by the Map or by a suspended call.
Reachable(Q, H, F) ==
    [ r \in { Q[c] : c \in DOMAIN Q } \cup { F[k].q : k \in DOMAIN F } |-> H[r] ]

\* The messages passed to the send of channel c so far.
Sent(c) == IF c \in DOMAIN sent THEN sent[c] ELSE <<>>

\* ch.send(chunk): the history after the call f has run to its next send
\* or to its end.
Passed(f) ==
    IF f.at = "done" \/ f.chunk.msgs = <<>> THEN sent
    ELSE (Channels[f.i] :> Sent(Channels[f.i]) \o f.chunk.msgs) @@ sent

\* The backlog of n messages, in every channel's queue.
Backlog(n) == [ i \in 1..n |-> Msg(i - n, BacklogLen) ]

BotInit ==
    /\ ManagerInit
    /\ tfile = EmptyText /\ tout = NoRead
    /\ flushes = <<>>
    /\ accepted = 0
    /\ sent = <<>>
    /\ TikTokInit
    /\ \E n \in Backlogs :
          IF n = 0 THEN queues = <<>> /\ heap = <<>>
          ELSE /\ queues = [ c \in { Channels[i] : i \in 1..Len(Channels) } |->
                                 CHOOSE i \in 1..Len(Channels) : Channels[i] = c ]
               /\ heap = [ i \in 1..Len(Channels) |-> Backlog(n) ]

\* A chat line, or a notice of the bridge, is queued: queueToAll(message).
BotQueue(len) ==
    /\ accepted < MaxMsgs
    /\ \E r \in { queueToAll(queues, heap, 1, Msg(accepted + 1, len)) } :
          queues' = r.queues /\ heap' = r.heap
    /\ accepted' = accepted + 1
    /\ UNCHANGED <<mgr, flushes, sent, tiktok, tfile, tout>>

\* The interval fires (the client being ready): the callback runs up to
\* its first send, or to its end when there is nothing to send.
BotTick ==
    /\ Cardinality(DOMAIN flushes) < MaxFlushes
    /\ \E r \in { FlushRun(Running(queues, heap, Flush(1, 0, "for", NoChunk, NoMsg))) } :
        \E F \in { IF r.flush.at = "done" THEN flushes
                    ELSE (NewRef(flushes) :> r.flush) @@ flushes } :
          /\ queues' = r.queues
          /\ flushes' = F
          /\ heap' = Reachable(r.queues, r.heap, F)
          /\ sent' = Passed(r.flush)
    /\ UNCHANGED <<mgr, accepted, tiktok, tfile, tout>>

\* The send a suspended call awaits settles (resolved or rejected: the
\* catch only logs) and the call runs on to its next send or to its end.
BotSendDone(k) ==
    /\ k \in DOMAIN flushes
    /\ \E r \in { Resume(queues, heap, flushes[k]) } :
        \E F \in { IF r.flush.at = "done" THEN Without(flushes, k)
                    ELSE [flushes EXCEPT ![k] = r.flush] } :
          /\ queues' = r.queues
          /\ flushes' = F
          /\ heap' = Reachable(r.queues, r.heap, F)
          /\ sent' = Passed(r.flush)
    /\ UNCHANGED <<mgr, accepted, tiktok, tfile, tout>>

BotNext ==
    \/ \E len \in MsgLens : BotQueue(len)
    \/ BotTick
    \/ \E k \in 1..MaxFlushes : BotSendDone(k)

BotSpec == BotInit /\ [][BotNext]_vars

----------------------------------------------------------------------------
(* src/Bot/server.js: the TikTok connection *)

MaxConns == 3        \* connections created

NoConn == 0          \* null
NoRoom == 0          \* null
Room   == 1          \* state.roomId

\* The length of the notices the CONNECTED and DISCONNECTED handlers queue.
NoticeLen == 50

\* A connection of the library: connecting (connect() called, not settled),
\* connected or closed; event: its DISCONNECTED event has been emitted by
\* a close and its handler has not run yet.
Conn(st, event) == [st |-> st, event |-> event]

Live(c) == conns[c].st \in {"connecting", "connected"}

\* queueToAll(notice), as the handlers of the connection's events call it.
NoticeQueued ==
    \E r \in { queueToAll(queues, heap, 1, Msg(accepted + 1, NoticeLen)) } :
        /\ queues' = r.queues /\ heap' = r.heap
        /\ accepted' = accepted + 1

\* The early returns of startTikTokListener, lines 158-165.
StartRefused(named) ==
    ~named \/ tiktokConn # NoConn \/ tiktokConnecting

\* startTikTokListener() up to `await tiktokConn.connect()`; named: a
\* TikTok username is configured.
TikStart(named) ==
    /\ IF StartRefused(named)
       THEN UNCHANGED <<conns, tiktokConn, tiktokConnecting>>
       ELSE /\ Len(conns) < MaxConns
            /\ conns' = Append(conns, Conn("connecting", FALSE))
            /\ tiktokConn' = Len(conns) + 1
            /\ tiktokConnecting' = TRUE
    /\ UNCHANGED <<mgr, bridge, tiktokConnectedRoomId, tfile, tout>>

\* The library emits CONNECTED for connection c, which is connecting: the
\* handler of lines 171-175 runs.  room: the roomId of the state the event
\* carries, NoRoom when the state has none (state?.roomId || null).
TikConnected(c, room) ==
    /\ c \in 1..Len(conns) /\ conns[c].st = "connecting"
    /\ conns' = [conns EXCEPT ![c].st = "connected"]
    /\ tiktokConnectedRoomId' = room
    /\ NoticeQueued
    /\ UNCHANGED <<mgr, flushes, sent, tiktokConn, tiktokConnecting>>
    /\ UNCHANGED <<tfile, tout>>

\* The promise of connect() of connection c resolves, after the CONNECTED
\* event or without one, and the suspended call goes on: finally, line
\* 209.  Between the event and this step other events and commands run.
\* The call suspended at the await is the one of the newest connection:
\* a start is refused while tiktokConnecting.
TikResolved(c) ==
    /\ tiktokConnecting /\ c = Len(conns)
    /\ conns' = [conns EXCEPT ![c].st =
                     IF @ = "connecting" THEN "connected" ELSE @]
    /\ tiktokConnecting' = FALSE
    /\ UNCHANGED <<mgr, bridge, tiktokConn, tiktokConnectedRoomId>>
    /\ UNCHANGED <<tfile, tout>>

\* connect() of connection c rejects: catch (lines 201-207) and finally.
\* disconnect() of a connection that is not connected does nothing.
TikConnectFailed(c) ==
    /\ c \in 1..Len(conns) /\ conns[c].st = "connecting"
    /\ conns' = [conns EXCEPT ![c].st = "closed"]
    /\ tiktokConn' = NoConn
    /\ tiktokConnecting' = FALSE
    /\ UNCHANGED <<mgr, bridge, tiktokConnectedRoomId, tfile, tout>>

\* The DISCONNECTED handler, lines 177-182.
OnDisconnected ==
    /\ NoticeQueued
    /\ tiktokConn' = NoConn
    /\ tiktokConnectedRoomId' = NoRoom

\* The live stream of connection c ends, or its socket is lost: the
\* library closes the connection and emits DISCONNECTED.
TikStreamEnded(c) ==
    /\ c \in 1..Len(conns) /\ conns[c].st = "connected"
    /\ conns' = [conns EXCEPT ![c].st = "closed"]
    /\ OnDisconnected
    /\ UNCHANGED <<mgr, flushes, sent, tiktokConnecting, tfile, tout>>

\* stopTikTokListener(), lines 213-222.  disconnect() closes a connected
\* connection; its DISCONNECTED event is emitted during the call (sync)
\* or when the socket has closed, later.  On a connection that is still
\* connecting disconnect() does nothing: connect() goes on.
TikStop(sync) ==
    /\ IF tiktokConn = NoConn
       THEN UNCHANGED <<queues, heap, accepted, conns, tiktokConn,
                        tiktokConnectedRoomId>>
       ELSE /\ IF conns[tiktokConn].st = "connected"
               THEN /\ conns' = [conns EXCEPT ![tiktokConn] =
                                             Conn("closed", ~sync)]
                    /\ IF sync THEN NoticeQueued
                       ELSE UNCHANGED <<queues, heap, accepted>>
               ELSE UNCHANGED <<queues, heap, accepted, conns>>
            /\ tiktokConn' = NoConn
            /\ tiktokConnectedRoomId' = NoRoom
    /\ UNCHANGED <<mgr, flushes, sent, tiktokConnecting, tfile, tout>>

\* The DISCONNECTED event of a connection closed by disconnect() arrives.
TikDisconnected(c) ==
    /\ c \in 1..Len(conns) /\ conns[c].event
    /\ conns' = [conns EXCEPT ![c].event = FALSE]
    /\ OnDisconnected
    /\ UNCHANGED <<mgr, flushes, sent, tiktokConnecting, tfile, tout>>

TikNext ==
    \/ \E named \in BOOLEAN : TikStart(named)
    \/ \E c \in 1..MaxConns, room \in {NoRoom, Room} : TikConnected(c, room)
    \/ \E c \in 1..MaxConns : TikResolved(c)
    \/ \E c \in 1..MaxConns : TikConnectFailed(c)
    \/ \E c \in 1..MaxConns : TikStreamEnded(c)
    \/ \E sync \in BOOLEAN : TikStop(sync)
    \/ \E c \in 1..MaxConns : TikDisconnected(c)

TikSpec == Init /\ [][TikNext]_vars

----------------------------------------------------------------------------
(* Sanity of the model's state *)

TypeOK ==
    /\ jars \subseteq JarFiles
    /\ Len(servers) <= MaxServers
    /\ \A i \in 1..Len(servers) : servers[i].id \in AllIds
    /\ DOMAIN dirs \subseteq AllIds
    /\ DOMAIN procMap \subseteq AllIds
    /\ DOMAIN procs \subseteq Pids
    /\ \A p \in DOMAIN procs : procs[p].st \in {"running", "exited"}
    /\ nextPid \in 1..(MaxSpawn + 1)
    /\ armed \subseteq AllIds
    /\ up \in BOOLEAN /\ java \in BOOLEAN /\ garbled \in BOOLEAN
    /\ epipe \subseteq DOMAIN procs
    /\ DOMAIN streams \subseteq Pids
    /\ DOMAIN procs \subseteq DOMAIN streams
    /\ \A p \in DOMAIN streams :
          /\ streams[p].lost => streams[p].open
          /\ Len(streams[p].buf) <= MaxChunks + 1
          /\ streams[p].ended <=> p \notin DOMAIN procs
    /\ DOMAIN queues \subseteq { Channels[i] : i \in 1..Len(Channels) }
    /\ \A c \in DOMAIN queues : queues[c] \in DOMAIN heap
    /\ DOMAIN flushes \subseteq 1..MaxFlushes
    /\ \A k \in DOMAIN flushes :
          /\ flushes[k].at \in {"overflow", "final"}
          /\ flushes[k].q \in DOMAIN heap
    /\ accepted \in 0..(MaxMsgs + 2 * MaxConns)
    /\ Len(conns) <= MaxConns
    /\ \A c \in 1..Len(conns) :
          /\ conns[c].st \in {"connecting", "connected", "closed"}
          /\ conns[c].event => conns[c].st = "closed"
          /\ conns[c].st = "connecting" => tiktokConnecting /\ c = Len(conns)
    /\ tiktokConn \in 0..Len(conns)
    /\ tiktokConnectedRoomId \in {NoRoom, Room}
    /\ tiktokConnecting \in BOOLEAN
    /\ DOMAIN sent \subseteq { Channels[i] : i \in 1..Len(Channels) }

----------------------------------------------------------------------------
(* Claims *)

\* C1: in every reachable state each instance id has at most one spawned
\* child whose exit has not been observed, and procMap holds a handle for
\* the id exactly when there is one, which is the handle of that child.
C1_OneLiveProcess ==
    \A id \in AllIds :
        /\ Cardinality(LiveOf(id)) <= 1
        /\ LiveOf(id) = IF id \in DOMAIN procMap THEN {procMap[id]} ELSE {}

\* An instance that ran, exited, was observed and runs again, after a
\* second start of it was refused.
C1_Witness ==
    /\ last.op = "start" /\ last.body = "Already running"
    /\ \E i \in 1..Len(dirs[last.id].log.lines) :
           dirs[last.id].log.lines[i][1] = "exit"
    /\ Cardinality(LiveOf(last.id)) = 1

\* C2 (as amended): a start handled for an existing, stopped instance whose
\* jar is on disk succeeds and spawns exactly one child; every further start
\* of that id handled before the exit of that child is observed (id armed)
\* is refused with 400 'Already running' and spawns nothing.
C2_ConcurrentStart ==
    [][\A id \in AllIds :
          (last'.op = "start" /\ last'.id = id) =>
             /\ (HasRecord(id) /\ ~IsRunning(id) /\ getServer(id).jar \in jars)
                  => /\ last'.status = 200
                     /\ Cardinality(DOMAIN procs') = Cardinality(DOMAIN procs) + 1
                     /\ Cardinality(LiveOf(id)') = 1
             /\ id \in armed
                  => /\ last'.status = 400
                     /\ last'.body = "Already running"
                     /\ procs' = procs
                     /\ procMap' = procMap]_vars

\* The second of two starts of a stopped instance has just been refused.
C2_Witness ==
    /\ last.op = "start" /\ last.body = "Already running"
    /\ last.id \in armed
    /\ procs[procMap[last.id]].st = "running"
    /\ Cardinality(DOMAIN procs) = 1

\* C2 as claimed: the first of the two starts succeeds for every existing,
\* stopped instance (whether or not its jar is on disk), the other is
\* refused with 'Already running'.
C2_AsClaimed ==
    [][\A id \in AllIds :
          (last'.op = "start" /\ last'.id = id) =>
             /\ (HasRecord(id) /\ ~IsRunning(id))
                  => /\ last'.status = 200
                     /\ Cardinality(LiveOf(id)') = 1
             /\ id \in armed
                  => /\ last'.status = 400
                     /\ last'.body = "Already running"
                     /\ procs' = procs]_vars

\* C3: start is refused with 400 'Already running' (Conflict) when id is
\* in procMap, with 404 (NotFound) when no record has the id, with 400
\* 'JAR missing on disk' (InvalidState) when the record's jar is not on
\* disk; a refused start spawns nothing, opens no log file (creates no
\* stream) and leaves procMap and servers.json as they were.
C3_StartRefused ==
    [][\A id \in AllIds :
          (last'.op = "start" /\ last'.id = id) =>
             /\ IsRunning(id)
                  => last'.status = 400 /\ last'.body = "Already running"
             /\ ~HasRecord(id)
                  => last'.status = 404 /\ last'.body = "Not found"
             /\ (HasRecord(id) /\ ~IsRunning(id) /\ getServer(id).jar \notin jars)
                  => last'.status = 400 /\ last'.body = "JAR missing on disk"
             /\ (IsRunning(id) \/ ~HasRecord(id) \/ getServer(id).jar \notin jars)
                  => UNCHANGED <<procs, nextPid, procMap, dirs, streams,
                                 servers>>]_vars

\* A start refused for its missing jar, of an instance never started,
\* while another instance runs.
C3_Witness ==
    /\ last.op = "start" /\ last.body = "JAR missing on disk"
    /\ ~dirs[last.id].log.exists
    /\ procMap # <<>>

\* The set of the records of a registry.
Records(s) == { s[i] : i \in 1..Len(s) }

\* C4 as claimed: delete is refused with 404 when no record has the id
\* and with 400 'Stop the server first' (Conflict) when the id is in
\* procMap, both leaving servers.json and the directories as they were;
\* otherwise it answers 200 and removes the record and its directory and
\* nothing else.  No step removes the record or the directory of an
\* instance that is in procMap.
C4_Delete ==
    [][/\ \A id \in AllIds :
            (last'.op = "delete" /\ last'.id = id) =>
               /\ ~HasRecord(id)
                    => /\ last'.status = 404
                       /\ UNCHANGED <<servers, dirs>>
               /\ (HasRecord(id) /\ IsRunning(id))
                    => /\ last'.status = 400
                       /\ last'.body = "Stop the server first"
                       /\ UNCHANGED <<servers, dirs>>
               /\ (HasRecord(id) /\ ~IsRunning(id))
                    => /\ last'.status = 200
                       /\ Records(servers') =
                             { r \in Records(servers) : r.id # id }
                       /\ DOMAIN dirs' = DOMAIN dirs \ {getServer(id).dir}
                       /\ \A d \in DOMAIN dirs' : dirs'[d] = dirs[d]
       /\ \A id \in DOMAIN procMap :
            HasRecord(id) =>
               /\ { r \in Records(servers') : r.id = id }
                     = { r \in Records(servers) : r.id = id }
               /\ getServer(id).dir \in DOMAIN dirs']_vars

\* C5: stop on a running instance writes the one line 'stop\n' to the
\* child's input and leaves the id in procMap; a step removes an id from
\* procMap only when it is the 'close' callback of that id's child, which
\* has exited.  So while the child does not exit, the id stays in procMap
\* whatever stop and command requests arrive.
C5_StopFireAndForget ==
    [][/\ \A id \in AllIds :
            (last'.op = "stop" /\ last'.id = id /\ IsRunning(id)) =>
               /\ last'.status = 200
               /\ procs' = [procs EXCEPT ![procMap[id]].stdin =
                               Append(@, <<"s", "t", "o", "p", "\n">>)]
               /\ procMap' = procMap
       /\ \A id \in DOMAIN procMap :
            id \notin DOMAIN procMap' =>
               /\ last'.op = "close" /\ last'.id = id
               /\ procs[procMap[id]].st = "exited"]_vars

\* A stop has been written to a child that is still running and mapped.
C5_Witness ==
    /\ last.op = "stop" /\ last.status = 200
    /\ procs[procMap[last.id]].st = "running"
    /\ procs[procMap[last.id]].stdin = <<StopLine>>

\* The 'close' callback of child p has run.
Observed(p) == last.op = "close" /\ last.pid = p

\* C6 as claimed: a child that has exited is eventually observed ('close'
\* fires, under fairness of the event loop); from the step of the 'close'
\* callback on the id is out of procMap until a successful start of it,
\* and the instance's console.log holds the trailer with that child's exit
\* code.
C6_ExitObserved ==
    /\ \A p \in Pids :
          (p \in DOMAIN procs /\ procs[p].st = "exited") ~> Observed(p)
    /\ [][/\ \A p \in DOMAIN procs :
               (last'.op = "close" /\ last'.pid = p) =>
                  /\ procs[p].st = "exited"
                  /\ procs[p].id \notin DOMAIN procMap'
                  /\ \E i \in 1..Len(dirs'[procs[p].cwd].log.lines) :
                        dirs'[procs[p].cwd].log.lines[i]
                           = <<"exit", procs[p].code>>
          /\ \A id \in AllIds :
               (~IsRunning(id) /\ IsRunning(id)') =>
                  last'.op = "start" /\ last'.id = id /\ last'.status = 200]_vars

\* C7: an id is running (in procMap) exactly when a child spawned for it
\* has not had its exit observed; the running flags of a listing are that,
\* record by record; the id is running in the state a successful start
\* returns in; an id whose instance was never started (no console.log and
\* no stream that is to open one) is not running.
C7_IsRunning ==
    /\ \A id \in AllIds : IsRunning(id) <=> LiveOf(id) # {}
    /\ last.op = "list" =>
          /\ DOMAIN last.running = 1..Len(servers)
          /\ \A i \in 1..Len(servers) :
                last.running[i] <=> LiveOf(servers[i].id) # {}
    /\ (last.op = "start" /\ last.status = 200) =>
          /\ IsRunning(last.id)
          /\ procMap[last.id] = last.pid
    /\ \A id \in AllIds :
          (/\ id \in DOMAIN dirs => ~dirs[id].log.exists
           /\ \A p \in DOMAIN streams : streams[p].dir # id)
             => ~IsRunning(id)

\* A listing of two instances, the first stopped after a run and the
\* second running.
C7_Witness ==
    /\ last.op = "list"
    /\ last.running = <<FALSE, TRUE>>
    /\ dirs[servers[1].id].log.exists

\* C8: stop and command on an id that is not in procMap are refused with
\* 400 'Not running' (InvalidState), whatever the command text; nothing is
\* written to any child and procMap, servers.json and the directories with
\* their logs stay as they were.
C8_NotRunning ==
    [][\A id \in AllIds :
          (last'.op \in {"stop", "command"} /\ last'.id = id /\ ~IsRunning(id))
             => /\ last'.status = 400
                /\ last'.body = "Not running"
                /\ UNCHANGED <<procs, procMap, servers, dirs, streams>>]_vars

\* An empty command to a stopped instance was refused as not running,
\* while another instance runs.
C8_Witness ==
    /\ last.op = "command" /\ last.body = "Not running"
    /\ last.arg = <<>>
    /\ HasRecord(last.id)
    /\ procMap # <<>>

\* The text without its leading and trailing white space: the part from
\* its first to its last character that is not white space.
Inner(text) ==
    LET ks == { k \in 1..Len(text) : ~IsSpace(text[k]) }
        lo == CHOOSE k \in ks : \A j \in ks : k <= j
        hi == CHOOSE k \in ks : \A j \in ks : j <= k
    IN  IF ks = {} THEN <<>> ELSE SubSeq(text, lo, hi)

\* C9: a command whose text has a character that is not white space, sent
\* to a running instance, succeeds with exactly one write to that
\* instance's child: the text without leading and trailing white space,
\* then one newline; no other child is written to and procMap stays.
C9_CommandWritten ==
    [][\A id \in AllIds :
          (last'.op = "command" /\ last'.id = id /\ IsRunning(id)
              /\ Inner(last'.arg) # <<>>)
             => /\ last'.status = 200
                /\ procs' = [procs EXCEPT ![procMap[id]].stdin =
                                Append(@, Inner(last'.arg) \o <<"\n">>)]
                /\ procMap' = procMap]_vars

\* A padded command was written trimmed to one of two running children.
C9_Witness ==
    /\ last.op = "command" /\ last.status = 200
    /\ last.arg = <<" ", "o", "p", "\n">>
    /\ Cardinality(DOMAIN procMap) = 2
    /\ procs[procMap[last.id]].stdin = << <<"o", "p", "\n">> >>
    /\ \A p \in DOMAIN procs \ {procMap[last.id]} : procs[p].stdin = <<>>

\* C10 as claimed: a command whose text is empty after trimming, sent to a
\* running instance, is refused with 400 'command required'
\* (InvalidArgument) and nothing is written.
C10_BlankRefused ==
    [][\A id \in AllIds :
          (last'.op = "command" /\ last'.id = id /\ IsRunning(id)
              /\ Inner(last'.arg) = <<>>)
             => /\ last'.status = 400
                /\ last'.body = "command required"
                /\ procs' = procs]_vars

\* C11 as claimed: when the child procMap holds for an id has exited and
\* its 'close' has not been emitted yet, a stop of that id, and a command
\* with a text to send, answer the failed write as an error of the call
\* (500 'Failed to send ...'), not as a success.
C11_WriteFailureSurfaced ==
    [][\A id \in DOMAIN procMap :
          (/\ procs[procMap[id]].st = "exited"
           /\ last'.op \in {"stop", "command"} /\ last'.id = id
           /\ (last'.op = "command" => last'.arg # <<>>))
             => last'.status = 500]_vars

\* C12 as claimed: no spawn failure and no stream error of a managed
\* process ends the manager's own process.
C12_SupervisorSurvives == up

\* The lines of a text given as its pieces: the piece after a final line
\* break is no line.
TextLines(t) ==
    IF t[Len(t)].len = 0 THEN SubSeq(t, 1, Len(t) - 1) ELSE t

\* C13 as claimed: the text the log reader returns consists of the final
\* min(n, 2000) lines of the portion read (the last 1 MiB of the file at
\* most), n being the number of lines of that portion; for a file of 3000
\* lines under 1 MiB, each ended by its line break, these are lines 1001
\* to 3000, and for a file of fewer than 2000 lines they are all its lines.
C13_TailLast2000 ==
    tout.done =>
        /\ TextLines(tout.lines)
               = SliceLast(TextLines(ReadPieces(tfile)), TailLines)
        /\ (Len(tfile) = 3001 /\ tfile[3001].len = 0
                /\ FileSize(tfile) < TailBytes)
              => [ i \in 1..Len(TextLines(tout.lines)) |->
                      TextLines(tout.lines)[i].idx ]
                    = [ i \in 1..2000 |-> 1000 + i ]
        /\ (Len(TextLines(tfile)) < 2000 /\ FileSize(tfile) <= TailBytes)
              => [ i \in 1..Len(TextLines(tout.lines)) |->
                      TextLines(tout.lines)[i].len ]
                    = [ i \in 1..Len(TextLines(tfile)) |->
                          TextLines(tfile)[i].len ]

\* C14: a read of the log of an id without a record is answered 404 'Not
\* found'; for an id with a record whose directory has no console.log yet
\* (the instance was never started) it is answered 200 with the empty
\* text; and no read of a log changes servers.json, procMap, the children,
\* the jars or any file of the instance directories.
C14_TailMissing ==
    [][\A id \in AllIds :
          (last'.op = "logs" /\ last'.id = id)
             => /\ ~HasRecord(id)
                     => last'.status = 404 /\ last'.body = "Not found"
                /\ (HasRecord(id) /\ ~dirs[getServer(id).dir].log.exists)
                     => /\ last'.status = 200
                        /\ last'.body = ""
                        /\ last'.text = <<>>
                /\ UNCHANGED <<servers, garbled, procMap, procs, dirs,
                               streams, jars>>]_vars

\* The log of an instance that was never started was read, and answered
\* empty, while another instance was running with output in its log.
C14_Witness ==
    /\ last.op = "logs" /\ last.status = 200 /\ last.body = ""
    /\ HasRecord(last.id)
    /\ ~dirs[getServer(last.id).dir].log.exists
    /\ \E id \in DOMAIN procMap :
           id # last.id /\ dirs[getServer(id).dir].log.lines # <<>>

\* C15: in every reachable state a directory of data/servers exists
\* exactly when a record of servers.json refers to it.
C15_DirIffRecord ==
    \A d \in AllIds :
        d \in DOMAIN dirs <=> \E i \in 1..Len(servers) : servers[i].dir = d

\* One of two instances was deleted: its directory is gone, the other
\* one's is there.
C15_Witness ==
    /\ last.op = "delete" /\ last.status = 200
    /\ Len(servers) = 1
    /\ servers[1].id # last.id
    /\ DOMAIN dirs = {servers[1].dir}

\* The subsequence of s at the positions in keep.
RECURSIVE Kept(_, _)
Kept(s, keep) ==
    IF s = <<>> THEN <<>>
    ELSE Kept(SubSeq(s, 1, Len(s) - 1), keep)
         \o (IF Len(s) \in keep THEN <<s[Len(s)]>> ELSE <<>>)

\* C16 as claimed: after every step no two records of servers.json have
\* the same id, and a step leaves every record it does not delete as it
\* was, its id included: the new registry is the old one without some
\* records, followed by at most one new record.
C16_UniqueStableIds ==
    [][/\ \A i, j \in 1..Len(servers') :
              i # j => servers'[i].id # servers'[j].id
       /\ \E keep \in SUBSET (1..Len(servers)) :
              \/ servers' = Kept(servers, keep)
              \/ /\ Len(servers') = Cardinality(keep) + 1
                 /\ SubSeq(servers', 1, Cardinality(keep))
                        = Kept(servers, keep)]_vars

\* C17: whenever a handler saves the registry, what loadServers reads
\* from the text written is the registry saved, the same records in the
\* same order; and a restart of the manager leaves procMap empty and
\* servers.json as it was.
C17_RoundTrip ==
    [][/\ servers' # servers
            => \E t \in {saveServers(servers')} :
                  JSONparse(t).ok /\ LoadFrom(t) = servers'
       /\ last'.op = "restart"
            => /\ procMap' = <<>>
               /\ servers' = servers /\ garbled' = garbled]_vars

\* The manager was restarted while an instance was running: two different
\* records are in the registry and procMap is empty.
C17_Witness ==
    /\ last.op = "restart"
    /\ Len(servers) = 2
    /\ servers[1].name # servers[2].name
    /\ servers[1].port # servers[2].port
    /\ servers[1].maxMemoryMB # servers[2].maxMemoryMB
    /\ procMap = <<>>
    /\ \E d \in DOMAIN dirs : dirs[d].log.exists /\ dirs[d].log.lines = <<>>

\* C18, amended: a create that succeeds appends one record to the records
\* there were, which stay as they are; the new record has the id returned,
\* the name and port given, the memory limit given or 1024 when none (or
\* 0) is given, and the base name of the jar reference given; its
\* directory exists with eula.txt and with server.properties, which gives
\* the port unless the directory held a server.properties already; and
\* getServer of the id returned finds the new record unless an older
\* record has that id, which it then finds.
C18_CreateThenGet ==
    [][(last'.op = "create" /\ last'.status = 200)
          => \A n \in WideNames, po \in WidePorts, m \in WideMems,
                ref \in WideRefs, r \in Rands, id \in AllIds :
                (Create(n, po, m, ref, r) /\ id = last'.id)
                   => /\ Len(servers') = Len(servers) + 1
                      /\ SubSeq(servers', 1, Len(servers)) = servers
                      /\ servers'[Len(servers')]
                            = [ id |-> id, name |-> n, port |-> po,
                                maxMemoryMB |-> IF m = 0 THEN 1024 ELSE m,
                                jar |-> ref[Len(ref)], dir |-> id ]
                      /\ id \in DOMAIN dirs'
                      /\ dirs'[id].eula
                      /\ dirs'[id].props
                            = (IF id \in DOMAIN dirs /\ dirs[id].props # 0
                               THEN dirs[id].props ELSE po)
                      /\ getServer(id)'
                            = (IF HasRecord(id) THEN getServer(id)
                               ELSE servers'[Len(servers')])]_vars

\* An instance was created with no memory limit and a jar reference with
\* a directory, under an id an older record with another port has.
C18_Witness ==
    /\ last.op = "create" /\ last.status = 200
    /\ Len(servers) = 2
    /\ servers[1].id = servers[2].id
    /\ servers[1].port # servers[2].port
    /\ servers[2].maxMemoryMB = DefaultMaxMemoryMB
    /\ servers[1].maxMemoryMB # DefaultMaxMemoryMB

\* C18 as claimed: after a create that succeeds, getServer of the id
\* returned yields a record whose name, port, memory limit (when one is
\* given) and jar reference are the ones given; the record is appended to
\* the previous records, which are unchanged, and its directory exists
\* with the two default files.
C18_AsClaimed ==
    [][(last'.op = "create" /\ last'.status = 200)
          => \A n \in WideNames, po \in WidePorts, m \in WideMems,
                ref \in WideRefs, r \in Rands, id \in AllIds :
                (Create(n, po, m, ref, r) /\ id = last'.id)
                   => /\ getServer(id)'.name = n
                      /\ getServer(id)'.port = po
                      /\ m # 0 => getServer(id)'.maxMemoryMB = m
                      /\ << getServer(id)'.jar >> = ref
                      /\ Len(servers') = Len(servers) + 1
                      /\ SubSeq(servers', 1, Len(servers)) = servers
                      /\ id \in DOMAIN dirs'
                      /\ dirs'[id].eula]_vars

\* What the array q holds after the message m was pushed to it and the
\* cap applied: the newest MAX_QUEUE_LEN of the messages, in order.
Newest(q, m) ==
    LET all == Append(q, m)
    IN  IF Len(all) <= MAX_QUEUE_LEN THEN all
        ELSE [ j \in 1..MAX_QUEUE_LEN |-> all[Len(all) - MAX_QUEUE_LEN + j] ]

\* The array of channel c in the Map, none being an empty one.
QueueOf(c) == IF c \in DOMAIN queues THEN heap[queues[c]] ELSE <<>>

\* C19: in every reachable state every queue of the bridge, in the Map or
\* still held by a suspended flush, has at most MAX_QUEUE_LEN messages,
\* whatever the interleaving of queueToAll calls, ticks and settled sends;
\* and a call of queueToAll leaves in every channel's queue the messages
\* it held followed by the new one, less the oldest ones beyond the cap.
C19_QueueCap ==
    /\ [](\A r \in DOMAIN heap : Len(heap[r]) <= MAX_QUEUE_LEN)
    /\ [][accepted' # accepted =>
             \A i \in 1..Len(Channels) :
                \E len \in MsgLens :
                   QueueOf(Channels[i])' =
                       Newest(QueueOf(Channels[i]), Msg(accepted', len))]_vars

\* A message was pushed to a queue of MAX_QUEUE_LEN messages: the oldest
\* one of them is gone and the new one is the last.
C19_Witness ==
    /\ accepted > 0
    /\ \E c \in DOMAIN queues :
          /\ Len(heap[queues[c]]) = MAX_QUEUE_LEN
          /\ heap[queues[c]][MAX_QUEUE_LEN].n = accepted
          /\ heap[queues[c]][1].n = accepted - MAX_QUEUE_LEN + 1

\* C20 (as amended): a damaged servers.json does not parse and, until it
\* is written again, loadServers yields [] for it (the file is written by
\* create and delete only, so its text is the damaged one while `garbled`)
\* and no handler fails: the list is empty, logs and delete of
\* every id answer 404 'Not found' and change nothing, start of an id
\* answers 404 'Not found' unless the id is in procMap, and then 400
\* 'Already running'; a create that succeeds writes a file that parses
\* and holds the new record only.
C20_UnparseableIsEmpty ==
    [][/\ (~garbled /\ garbled')
            => \E t \in {stateFile'} :
                  ~JSONparse(t).ok /\ LoadFrom(t) = <<>> /\ servers' = servers
       /\ garbled =>
         /\ loadServers = <<>>
         /\ last'.op = "list" => last'.running = <<>>
         /\ last'.op \in {"logs", "delete"}
               => /\ last'.status = 404 /\ last'.body = "Not found"
                  /\ UNCHANGED <<servers, dirs, procMap, procs, garbled, up>>
         /\ last'.op = "start"
               => /\ IF last'.id \in DOMAIN procMap
                     THEN last'.status = 400 /\ last'.body = "Already running"
                     ELSE last'.status = 404 /\ last'.body = "Not found"
                  /\ UNCHANGED <<servers, dirs, procMap, procs, garbled, up>>
         /\ (last'.op = "create" /\ last'.status = 200)
               => /\ Len(servers') = 1 /\ servers'[1].id = last'.id
                  /\ ~garbled'
                  /\ \E t \in {stateFile'} :
                        JSONparse(t).ok /\ LoadFrom(t) = servers']_vars

\* An instance was created on a file that could not be parsed and that
\* held a record before: its record is the only one, the directory of the
\* other instance is still there and its process still runs.
C20_Witness ==
    /\ last.op = "create" /\ last.status = 200
    /\ Len(servers) = 1 /\ servers[1].id = last.id
    /\ \E id \in DOMAIN procMap : id # last.id /\ id \in DOMAIN dirs

\* C20 as stated: while the file cannot be parsed, start of every id
\* answers 404 'Not found'.
C20_AsClaimed ==
    [][(garbled /\ last'.op = "start")
          => last'.status = 404 /\ last'.body = "Not found"]_vars

\* C21: every text a flush passes to a channel's send (the chunk of a call
\* suspended in a send) is non-empty and has at most
\* DISCORD_SAFE_CHAR_LIMIT characters.
C21_SentTextBounded ==
    \A k \in DOMAIN flushes :
        /\ flushes[k].chunk.len > 0
        /\ flushes[k].chunk.len <= DISCORD_SAFE_CHAR_LIMIT

\* C22: servers.json being written by create and delete only, every id in
\* procMap has a record in servers.json, in every reachable state.
C22_LiveHasRecord ==
    \A id \in DOMAIN procMap :
        \E i \in 1..Len(servers) : servers[i].id = id

\* The delete of an instance was refused after its process had exited
\* and before the close of it was observed: its id is still in procMap
\* and its record is still there.
C22_Witness ==
    /\ last.op = "delete" /\ last.status = 400
    /\ last.id \in DOMAIN procMap
    /\ procs[procMap[last.id]].st = "exited"
    /\ \E i \in 1..Len(servers) : servers[i].id = last.id

\* The message numbered n waits for a send of channel i: it is in the
\* channel's array in the Map, or in the array a suspended flush of the
\* channel goes on with, or it is the message such a flush took last.
Pending(i, n) ==
    \/ \E j \in 1..Len(QueueOf(Channels[i])) : QueueOf(Channels[i])[j].n = n
    \/ \E k \in DOMAIN flushes :
          /\ flushes[k].i = i
          /\ \/ flushes[k].at = "overflow" /\ flushes[k].next.n = n
             \/ \E j \in 1..Len(heap[flushes[k].q]) : heap[flushes[k].q][j].n = n

\* The messages of channel i were passed to send in the order they were
\* queued, none twice.
InOrder(i) ==
    \A j \in 1..(Len(Sent(Channels[i])) - 1) :
        Sent(Channels[i])[j] < Sent(Channels[i])[j + 1]

\* No message queued in this run (none of them can be the oldest of more
\* than MAX_QUEUE_LEN, so the cap drops none) is lost to channel i.
NoneLost(i) ==
    \A n \in 1..accepted :
        \/ \E j \in 1..Len(Sent(Channels[i])) : Sent(Channels[i])[j] = n
        \/ Pending(i, n)

\* C23, the part of it that no schedule can mend: in every reachable
\* state the messages passed to a channel's send were passed in the order
\* they were queued, none twice, and every message accepted in this run
\* was passed to the channel's send or still waits for it.
C23_OnceInOrder ==
    \A i \in 1..Len(Channels) : InOrder(i) /\ NoneLost(i)

\* C24: in every reachable state at most one connection is connecting or
\* connected, and tiktokConn is not null when one is.
C24_OneLiveConnection ==
    /\ Cardinality({ c \in 1..Len(conns) : Live(c) }) <= 1
    /\ (\E c \in 1..Len(conns) : Live(c)) => tiktokConn # NoConn

====
